---- MODULE Spec2Model ----
(***************************************************************************)
(* The report endpoints of backend/oracle_report_routes.py over the        *)
(* oracle_reports table.  One action per endpoint; each action is the      *)
(* whole handler: token check, the single query, the response, and the     *)
(* commit of the request's transaction.                                    *)
(***************************************************************************)
EXTENDS Integers, Sequences, FiniteSets, TLC

VARIABLES
    table,      \* the oracle_reports rows (a set of row records)
    op,         \* the last request served: endpoint, fields, validate_user's answer
    resp,       \* the JSONResponse of the last request
    before,     \* the table as it was when the last request arrived
    written,    \* comments lists stored by update_report_comments, per live row
    last_mdx    \* the latest 200 body of get_report_mdx, while its row is unmodified,
                \* and whether the call before it was one of the same row

vars == <<table, op, resp, before, written, last_mdx>>

----------------------------------------------------------------------------
(* Bounds of the model *)

MaxTs == 2
MaxComments == 1
MaxSteps == 2

DbNames == {"db_a", "db_b"}
ReportIds == {1, 2}
Timestamps == 1..MaxTs

----------------------------------------------------------------------------
(* Strings whose characters matter are sequences of one-character strings.  *)
(* A nullable string is a record: null, or the characters.                  *)

Null == [null |-> TRUE, chars |-> <<>>]
Str(s) == [null |-> FALSE, chars |-> s]

\* "Revision: "
RevisionPrefix == <<"R", "e", "v", "i", "s", "i", "o", "n", ":", " ">>

\* "Revision in progress: "
RevisionInProgressPrefix ==
    <<"R", "e", "v", "i", "s", "i", "o", "n", " ", "i", "n", " ",
      "p", "r", "o", "g", "r", "e", "s", "s", ":", " ">>

\* str.startswith
startswith(s, prefix) ==
    /\ Len(s) >= Len(prefix)
    /\ SubSeq(s, 1, Len(prefix)) = prefix

\* `report.status.value or ""`
status_or_empty(value) == IF value.null \/ value.chars = <<>> THEN <<>> ELSE value.chars

is_revision_exact(value) == status_or_empty(value) = RevisionPrefix

\* status.startswith("Revision: ")
is_revision(value) == startswith(status_or_empty(value), RevisionPrefix)

is_being_revised_short(value) ==
    startswith(status_or_empty(value), SubSeq(RevisionPrefix, 1, 8))

\* status.startswith("Revision in progress: ")
is_being_revised(value) == startswith(status_or_empty(value), RevisionInProgressPrefix)

\* datetime.isoformat(): year, month, day of a timestamp counted in days
isoformat(ts) == <<"2025", "01", ts>>

----------------------------------------------------------------------------
(* Stored values *)

\* status values the table may hold
StatusValues ==
    { Str(RevisionPrefix \o <<"1">>),                 \* "Revision: 1"
      Str(RevisionInProgressPrefix \o <<"1">>),       \* "Revision in progress: 1"
      Str(SubSeq(RevisionPrefix, 1, 9)),              \* "Revision:"
      Str(<<"d", "o", "n", "e">>),                    \* "done"
      Null }

DoneStatus == Str(<<"d", "o", "n", "e">>)

\* result payloads of a thinking step: a dict with or without the key
\* "analysis_id", or a value that is not a dict
DictWithId == [type |-> "dict", keys |-> {"analysis_id"}, analysis_id |-> "a1"]
DictNoId == [type |-> "dict", keys |-> {}, analysis_id |-> ""]
NotDict == [type |-> "str", keys |-> {}, analysis_id |-> ""]
ResultValues == {DictWithId, DictNoId, NotDict}

FunctionNames == {"text_to_sql_tool", "web_search_tool"}

\* a stored thinking step: a dict with the keys function_name and result
Step(fn, res) == [function_name |-> fn, result |-> res, keys |-> {"function_name", "result"},
                  analysis_id |-> ""]
StepValues == {Step(fn, res) : fn \in FunctionNames, res \in ResultValues}

SeqsUpTo(S, n) == UNION {[1..k -> S] : k \in 0..n}

\* a nullable JSON list
NullList == [null |-> TRUE, items |-> <<>>]
List(items) == [null |-> FALSE, items |-> items]

Analysis1 == [analysis_id |-> "a0", keys |-> {"analysis_id"}]
CommentValues == {"c1"}

\* a row of oracle_reports
Row(db, id, status, ts, analyses, steps, comments) ==
    [db_name |-> db, report_id |-> id, report_name |-> "report", status |-> status,
     created_ts |-> ts, inputs |-> "inputs", mdx |-> "mdx",
     analyses |-> analyses, thinking_steps |-> steps,
     report_content_with_citations |-> NullList, analysis_ids |-> <<"a0">>,
     comments |-> comments]

Key(r) == <<r.db_name, r.report_id>>
\* the pairs that may have a row; (db_b, 2) never has one
Keys == (DbNames \X ReportIds) \ {<<"db_b", 2>>}

----------------------------------------------------------------------------
(* Responses *)

JSONResponse(code, content) == [status_code |-> code, content |-> content]
Unauthorized == JSONResponse(401, [error |-> "Unauthorized"])
NotFound == JSONResponse(404, [error |-> "Report not found"])

----------------------------------------------------------------------------
(* The session: queries, and the flush that the commit of session.begin()   *)
(* performs when the handler leaves the block.                              *)

select_report_by_id(t, db, id) == {r \in t : r.report_id = id}

\* select(OracleReports).where(db_name == req.db_name, report_id == req.report_id)
\* followed by scalar_one_or_none(): the empty set or the one matching row
select_report(t, db, id) == {r \in t : r.db_name = db /\ r.report_id = id}

select_status_by_id(t, db, id) == {r \in t : r.report_id = id}

\* the same query as issued by get_report_status
select_status(t, db, id) == {r \in t : r.db_name = db /\ r.report_id = id}

\* sequences that enumerate the set S once each
Enumerations(S) ==
    {s \in [1..Cardinality(S) -> S] : \A i, j \in 1..Cardinality(S) : s[i] = s[j] => i = j}

fetchall_asc(t, db) ==
    {s \in Enumerations({r \in t : r.db_name = db}) :
        \A i, j \in 1..Len(s) : i < j => s[i].created_ts <= s[j].created_ts}

\* .where(db_name == req.db_name).order_by(created_ts.desc()) ... fetchall():
\* every order the database may return; rows of equal created_ts come in any order
fetchall(t, db) ==
    {s \in Enumerations({r \in t : r.db_name = db}) :
        \A i, j \in 1..Len(s) : i < j => s[i].created_ts >= s[j].created_ts}

\* JSON attributes of OracleReports whose in-place mutation marks the object dirty
\* (none: the columns are plain JSON columns)
MutableTracked == {}

\* the UPDATE the commit flushes for one loaded object: the attributes the handler
\* assigned, and the tracked attributes that changed in place
flush(t, loaded, obj, assigned) ==
    LET dirty == assigned \cup {a \in MutableTracked : obj[a] # loaded[a]}
    IN  IF dirty = {} THEN t
        ELSE (t \ {loaded}) \cup
             {[a \in DOMAIN loaded |-> IF a \in dirty THEN obj[a] ELSE loaded[a]]}

----------------------------------------------------------------------------
(* /oracle/list_reports *)

\* the dictionary appended for one fetched row
list_entry(report) ==
    [report_id |-> report.report_id,
     report_name |-> report.report_name,
     status |-> report.status,
     is_revision |-> is_revision(report.status),
     is_being_revised |-> is_being_revised(report.status),
     date_created |-> isoformat(report.created_ts),
     inputs |-> report.inputs]

\* reports: the rows fetched, in the order fetched
reports_list(valid, reports) ==
    IF ~valid THEN Unauthorized
    ELSE LET Kept(report) == ~is_revision(report.status)
             kept == SelectSeq(reports, Kept)
         IN  JSONResponse(200, [reports |-> [i \in 1..Len(kept) |-> list_entry(kept[i])]])

----------------------------------------------------------------------------
(* /oracle/delete_report *)

delete_report_lookup_first(t, valid, db, id) ==
    LET report == select_report(t, db, id)
    IN  IF report = {} THEN [resp |-> NotFound, table |-> t]
        ELSE IF ~valid THEN [resp |-> Unauthorized, table |-> t]
        ELSE [resp |-> JSONResponse(200, [message |-> "Report deleted"]),
              table |-> t \ report]

delete_report_whole_db(t, valid, db, id) ==
    IF ~valid THEN [resp |-> Unauthorized, table |-> t]
    ELSE LET report == select_report(t, db, id)
         IN  IF report # {}
             THEN [resp |-> JSONResponse(200, [message |-> "Report deleted"]),
                   table |-> {r \in t : r.db_name # db}]
             ELSE [resp |-> NotFound, table |-> t]

delete_report_by_id(t, valid, db, id) ==
    IF ~valid THEN [resp |-> Unauthorized, table |-> t]
    ELSE LET report == select_report_by_id(t, db, id)
         IN  IF report # {}
             THEN [resp |-> JSONResponse(200, [message |-> "Report deleted"]),
                   table |-> t \ report]
             ELSE [resp |-> NotFound, table |-> t]

\* the response, and the table after the commit
delete_report(t, valid, db, id) ==
    IF ~valid THEN [resp |-> Unauthorized, table |-> t]
    ELSE LET report == select_report(t, db, id)
         IN  IF report # {}
             THEN [resp |-> JSONResponse(200, [message |-> "Report deleted"]),
                   table |-> t \ report]
             ELSE [resp |-> NotFound, table |-> t]

----------------------------------------------------------------------------
(* /oracle/get_report_mdx *)

\* `value or []`
or_empty(list) == IF list.null \/ list.items = <<>> THEN <<>> ELSE list.items

\* dict.get("analysis_id", default)
get_analysis_id(d, default) == IF "analysis_id" \in d.keys THEN d.analysis_id ELSE default

annotate_always(step) ==
    [step EXCEPT !.keys = @ \cup {"analysis_id"},
                 !.analysis_id = IF step.result.type = "dict"
                                 THEN get_analysis_id(step.result, "unknown")
                                 ELSE "unknown"]

\* the body of the loop over non_sql_thinking_steps, for one step
annotate(step) ==
    IF step.result.type = "dict"
    THEN [step EXCEPT !.keys = @ \cup {"analysis_id"},
                      !.analysis_id = get_analysis_id(step.result, "unknown")]
    ELSE step

is_non_sql(step) == step.function_name # "text_to_sql_tool"

\* [step for step in thinking_steps if step["function_name"] != "text_to_sql_tool"]
non_sql_thinking_steps(steps) == SelectSeq(steps, is_non_sql)

\* the loaded object after the loop: the loop writes into the step dictionaries
\* that report.thinking_steps holds
mdx_object(report) ==
    IF report.thinking_steps.null THEN report
    ELSE [report EXCEPT !.thinking_steps.items =
            [i \in 1..Len(@) |-> IF is_non_sql(@[i]) THEN annotate(@[i]) ELSE @[i]]]

mdx_assigned_steps == {"thinking_steps"}

\* the attributes of the loaded report that get_report_mdx assigns
mdx_assigned == {}

\* the 200 body
mdx_content(report) ==
    LET analyses == or_empty(report.analyses)
        thinking_steps == or_empty(report.thinking_steps)
        steps == non_sql_thinking_steps(thinking_steps)
    IN  [mdx |-> report.mdx,
         analyses |-> analyses \o [i \in 1..Len(steps) |-> annotate(steps[i])],
         report_with_citations |-> or_empty(report.report_content_with_citations),
         inputs |-> report.inputs]

get_report_mdx(t, valid, db, id) ==
    IF ~valid THEN [resp |-> Unauthorized, table |-> t]
    ELSE LET found == select_report(t, db, id)
         IN  IF found # {}
             THEN LET report == CHOOSE r \in found : TRUE
                  IN  [resp |-> JSONResponse(200, mdx_content(report)),
                       table |-> flush(t, report, mdx_object(report), mdx_assigned)]
             ELSE [resp |-> NotFound, table |-> t]

----------------------------------------------------------------------------
(* /oracle/get_report_analysis_ids, /oracle/get_report_status,             *)
(* /oracle/get_report_comments                                              *)

get_report_analysis_ids(t, valid, db, id) ==
    IF ~valid THEN Unauthorized
    ELSE LET result == select_report(t, db, id)
         IN  IF result = {} THEN NotFound
             ELSE JSONResponse(200, [analyses |-> (CHOOSE r \in result : TRUE).analysis_ids])

get_report_status(t, valid, db, id) ==
    IF ~valid THEN Unauthorized
    ELSE LET row == select_status(t, db, id)
         IN  IF row # {}
             THEN JSONResponse(200, [status |-> (CHOOSE r \in row : TRUE).status])
             ELSE NotFound

get_report_comments(t, valid, db, id) ==
    IF ~valid THEN Unauthorized
    ELSE LET report == select_report(t, db, id)
         IN  IF report # {}
             THEN JSONResponse(200, [comments |-> (CHOOSE r \in report : TRUE).comments])
             ELSE NotFound

----------------------------------------------------------------------------
(* /oracle/update_report_comments *)

assign_comments_append(report, comments) ==
    [report EXCEPT !.comments = List(or_empty(@) \o comments)]

\* report.comments = req.comments
assign_comments(report, comments) == [report EXCEPT !.comments = List(comments)]

update_report_comments(t, valid, db, id, comments) ==
    IF ~valid THEN [resp |-> Unauthorized, table |-> t]
    ELSE LET found == select_report(t, db, id)
         IN  IF found # {}
             THEN LET report == CHOOSE r \in found : TRUE
                  IN  [resp |-> JSONResponse(200, [message |-> "Comments updated"]),
                       table |-> flush(t, report, assign_comments(report, comments),
                                       {"comments"})]
             ELSE [resp |-> NotFound, table |-> t]

----------------------------------------------------------------------------
(* Requests and the bookkeeping of what was served *)

BasicRequest(name, valid, db) ==
    [name |-> name, valid |-> valid, db_name |-> db, report_id |-> 0, comments |-> <<>>]

ReportRequest(name, valid, db, id) ==
    [name |-> name, valid |-> valid, db_name |-> db, report_id |-> id, comments |-> <<>>]

UpdateReportCommentsRequest(valid, db, id, comments) ==
    [name |-> "update_report_comments", valid |-> valid, db_name |-> db,
     report_id |-> id, comments |-> comments]

\* the request lists of update_report_comments
CommentLists == SeqsUpTo(CommentValues, MaxComments)

Forget(hist, db, id) == {h \in hist : ~(h.db_name = db /\ h.report_id = id)}

\* a request that leaves the table alone
Serve(request, response) ==
    /\ op' = request
    /\ resp' = response
    /\ before' = table
    /\ UNCHANGED <<table, written>>

----------------------------------------------------------------------------
(* Actions: one per endpoint *)

ListReports ==
    \E valid \in BOOLEAN, db \in DbNames :
        \E reports \in fetchall(table, db) :
            /\ Serve(BasicRequest("list_reports", valid, db), reports_list(valid, reports))
            /\ UNCHANGED last_mdx

DeleteReport ==
    \E valid \in BOOLEAN, db \in DbNames, id \in ReportIds :
        LET r == delete_report(table, valid, db, id) IN
        /\ op' = ReportRequest("delete_report", valid, db, id)
        /\ resp' = r.resp
        /\ before' = table
        /\ table' = r.table
        /\ written' = IF r.resp.status_code = 200 THEN Forget(written, db, id) ELSE written
        /\ last_mdx' = IF r.resp.status_code = 200 THEN Forget(last_mdx, db, id) ELSE last_mdx

GetReportMdx ==
    \E valid \in BOOLEAN, db \in DbNames, id \in ReportIds :
        LET r == get_report_mdx(table, valid, db, id) IN
        /\ op' = ReportRequest("get_report_mdx", valid, db, id)
        /\ resp' = r.resp
        /\ before' = table
        /\ table' = r.table
        /\ last_mdx' = IF r.resp.status_code = 200
                       THEN {[db_name |-> db, report_id |-> id, content |-> r.resp.content,
                              repeated |-> Forget(last_mdx, db, id) # last_mdx]}
                       ELSE last_mdx
        /\ UNCHANGED written

GetReportAnalysisIds ==
    \E valid \in BOOLEAN, db \in DbNames, id \in ReportIds :
        /\ Serve(ReportRequest("get_report_analysis_ids", valid, db, id),
                 get_report_analysis_ids(table, valid, db, id))
        /\ UNCHANGED last_mdx

GetReportStatus ==
    \E valid \in BOOLEAN, db \in DbNames, id \in ReportIds :
        /\ Serve(ReportRequest("get_report_status", valid, db, id),
                 get_report_status(table, valid, db, id))
        /\ UNCHANGED last_mdx

GetReportComments ==
    \E valid \in BOOLEAN, db \in DbNames, id \in ReportIds :
        /\ Serve(ReportRequest("get_report_comments", valid, db, id),
                 get_report_comments(table, valid, db, id))
        /\ UNCHANGED last_mdx

UpdateReportComments ==
    \E valid \in BOOLEAN, db \in DbNames, id \in ReportIds, comments \in CommentLists :
        LET r == update_report_comments(table, valid, db, id, comments) IN
        /\ op' = UpdateReportCommentsRequest(valid, db, id, comments)
        /\ resp' = r.resp
        /\ before' = table
        /\ table' = r.table
        /\ written' = IF r.resp.status_code = 200
                      THEN Forget(written, db, id) \cup
                           {[db_name |-> db, report_id |-> id, comments |-> comments]}
                      ELSE written
        /\ last_mdx' = IF r.resp.status_code = 200 THEN Forget(last_mdx, db, id) ELSE last_mdx

Next ==
    \/ ListReports
    \/ DeleteReport
    \/ GetReportMdx
    \/ GetReportAnalysisIds
    \/ GetReportStatus
    \/ GetReportComments
    \/ UpdateReportComments

----------------------------------------------------------------------------
(* Initial tables *)

\* the tables that hold, for each key of some subset of P, one row of rows[key]
RECURSIVE TablesOver(_, _)
TablesOver(P, rows) ==
    IF P = {} THEN {{}}
    ELSE LET k == CHOOSE x \in P : TRUE
             rest == TablesOver(P \ {k}, rows)
         IN  rest \cup {t \cup {r} : t \in rest, r \in rows[k]}

TablesOf(rows) == TablesOver(Keys, rows)

NoRequest == [name |-> "none", valid |-> FALSE, db_name |-> "", report_id |-> 0,
              comments |-> <<>>]

InitWith(tables) ==
    /\ table \in tables
    /\ op = NoRequest
    /\ resp = JSONResponse(0, [error |-> ""])
    /\ before = table
    /\ written = {}
    /\ last_mdx = {}

SqlStep == Step("text_to_sql_tool", DictWithId)
WebStep == Step("web_search_tool", DictWithId)

\* the rows the endpoints start from: report 1 of db_a has thinking steps, the
\* reports numbered 1 have a comment, the others have no comments list
CommentRows == [k \in Keys |->
    {Row(k[1], k[2], DoneStatus, 1, NullList,
         IF k = <<"db_a", 1>> THEN List(<<SqlStep, WebStep>>) ELSE NullList,
         IF k[2] = 1 THEN List(<<"c0">>) ELSE NullList)}]

Init == InitWith(TablesOf(CommentRows))

\* every endpoint
Spec == Init /\ [][Next]_vars

\* rows that differ in status and creation time
StatusRows == [k \in Keys |->
    {Row(k[1], k[2], status, ts, NullList, NullList, NullList) :
        status \in StatusValues, ts \in Timestamps}]

InitList == InitWith(TablesOf(StatusRows))

NextList ==
    \/ ListReports
    \/ DeleteReport

\* listing, over every table of rows that differ in status and creation time
SpecList == InitList /\ [][NextList]_vars

\* analyses and thinking steps of report 1 of db_a; the other rows have none
StepRows == [k \in Keys |->
    IF k = <<"db_a", 1>>
    THEN {Row(k[1], k[2], DoneStatus, 1, analyses, steps, NullList) :
            analyses \in {NullList, List(<<Analysis1>>)},
            steps \in {NullList} \cup {List(s) : s \in SeqsUpTo(StepValues, MaxSteps)}}
    ELSE {Row(k[1], k[2], DoneStatus, 1, NullList, NullList, NullList)}]

InitMdx == InitWith(TablesOf(StepRows))

NextMdx ==
    \/ GetReportMdx
    \/ DeleteReport

\* content retrieval, over every stored list of thinking steps
SpecMdx == InitMdx /\ [][NextMdx]_vars

----------------------------------------------------------------------------
(* Vocabulary of the properties *)

Served(name) == op.name = name
Has(t, db, id) == \E r \in t : r.db_name = db /\ r.report_id = id
HadRow == Has(before, op.db_name, op.report_id)
RowOf(t, db, id) == CHOOSE r \in t : r.db_name = db /\ r.report_id = id

\* the characters of a stored status start with the characters of prefix
HasPrefix(value, prefix) ==
    /\ ~value.null
    /\ Len(value.chars) >= Len(prefix)
    /\ \A i \in 1..Len(prefix) : value.chars[i] = prefix[i]

ListedOk == Served("list_reports") /\ op.valid /\ resp.status_code = 200
Entries == resp.content.reports
EndpointNames ==
    {"list_reports", "delete_report", "get_report_mdx", "get_report_analysis_ids",
     "get_report_status", "get_report_comments", "update_report_comments"}
LookupNames ==
    {"get_report_mdx", "get_report_analysis_ids", "get_report_status",
     "get_report_comments", "update_report_comments"}
ReadNames ==
    {"list_reports", "get_report_mdx", "get_report_analysis_ids", "get_report_status",
     "get_report_comments"}

----------------------------------------------------------------------------
(* C1: a request whose token validation fails is answered 401 by every      *)
(* endpoint, whether or not the (db_name, report_id) pair has a row.        *)
C1_Unauthorized ==
    (op.name \in EndpointNames /\ ~op.valid) => resp.status_code = 401

\* delete_report with a failing token on a pair that has no row
C1_Witness ==
    /\ Served("delete_report") /\ ~op.valid
    /\ ~HadRow /\ before # {}
    /\ resp.status_code = 401

(* C2: the response of list_reports with a valid token has no entry whose   *)
(* status starts with "Revision: ".                                         *)
C2_NoRevisionListed ==
    ListedOk => \A i \in 1..Len(Entries) : ~HasPrefix(Entries[i].status, RevisionPrefix)

\* a listing that returned an entry and hid a "Revision: " row of the same db
C2_Witness ==
    /\ ListedOk
    /\ Len(Entries) > 0
    /\ \E r \in table : r.db_name = op.db_name /\ HasPrefix(r.status, RevisionPrefix)

(* C3: every row of the requested db whose status starts with               *)
(* "Revision in progress: " is listed with is_being_revised = true and      *)
(* is_revision = false; every listed entry whose status does not start with *)
(* it has is_being_revised = false.                                         *)
C3_BeingRevisedFlag ==
    ListedOk =>
        /\ \A r \in table :
              (r.db_name = op.db_name /\ HasPrefix(r.status, RevisionInProgressPrefix)) =>
                  \E i \in 1..Len(Entries) :
                      /\ Entries[i].report_id = r.report_id
                      /\ Entries[i].is_being_revised = TRUE
                      /\ Entries[i].is_revision = FALSE
        /\ \A i \in 1..Len(Entries) :
              ~HasPrefix(Entries[i].status, RevisionInProgressPrefix) =>
                  Entries[i].is_being_revised = FALSE

\* a listing with one entry being revised and one that is not
C3_Witness ==
    /\ ListedOk
    /\ \E i, j \in 1..Len(Entries) :
          /\ HasPrefix(Entries[i].status, RevisionInProgressPrefix)
          /\ Entries[i].is_being_revised
          /\ ~HasPrefix(Entries[j].status, RevisionInProgressPrefix)

(* C4: list_reports with a valid token returns exactly the rows of the      *)
(* requested db whose status does not start with "Revision: ", each once,   *)
(* newest creation time first.                                              *)
C4_ListedRows ==
    (Served("list_reports") /\ op.valid) =>
        /\ resp.status_code = 200
        /\ LET expected == {r \in table :
                              r.db_name = op.db_name /\ ~HasPrefix(r.status, RevisionPrefix)}
           IN  /\ Len(Entries) = Cardinality(expected)
               /\ {Entries[i].report_id : i \in 1..Len(Entries)} =
                      {r.report_id : r \in expected}
               /\ \A i, j \in 1..Len(Entries) :
                      i < j => RowOf(table, op.db_name, Entries[i].report_id).created_ts >=
                               RowOf(table, op.db_name, Entries[j].report_id).created_ts

\* a listing of two rows created at different times, with a row of another db stored
C4_Witness ==
    /\ ListedOk
    /\ Len(Entries) = 2
    /\ Entries[1].date_created # Entries[2].date_created
    /\ \E r \in table : r.db_name # op.db_name

(* C5: delete_report with a valid token on a pair that has no row returns   *)
(* 404 and leaves the table as it was.                                      *)
C5_DeleteMissing ==
    (Served("delete_report") /\ op.valid /\ ~HadRow) =>
        (resp.status_code = 404 /\ table = before)

\* the pair has no row, its report_id has one under the other db
C5_Witness ==
    /\ Served("delete_report") /\ op.valid /\ ~HadRow
    /\ \E r \in before : r.report_id = op.report_id
    /\ resp.status_code = 404

(* C6: delete_report with a valid token on an existing row returns 200 and  *)
(* removes exactly that row; every other row stays, fields unchanged.       *)
C6_DeleteExisting ==
    (Served("delete_report") /\ op.valid /\ HadRow) =>
        /\ resp.status_code = 200
        /\ ~Has(table, op.db_name, op.report_id)
        /\ table = {r \in before : ~(r.db_name = op.db_name /\ r.report_id = op.report_id)}

\* a deletion that left a row of the same db and a row of the same report_id
C6_Witness ==
    /\ Served("delete_report") /\ op.valid /\ HadRow
    /\ resp.status_code = 200
    /\ \E r \in table : r.db_name = op.db_name /\ r.report_id # op.report_id
    /\ \E r \in table : r.db_name # op.db_name /\ r.report_id = op.report_id

----------------------------------------------------------------------------
(* Vocabulary of the properties about get_report_mdx *)

MdxOk == Served("get_report_mdx") /\ op.valid /\ HadRow /\ resp.status_code = 200
MdxRow == RowOf(before, op.db_name, op.report_id)
StoredAnalyses == IF MdxRow.analyses.null THEN <<>> ELSE MdxRow.analyses.items
StoredSteps == IF MdxRow.thinking_steps.null THEN <<>> ELSE MdxRow.thinking_steps.items
NotSqlTagged(step) == step.function_name # "text_to_sql_tool"
StoredNonSql == SelectSeq(StoredSteps, NotSqlTagged)
Merged == resp.content.analyses

\* the merged list is the stored analyses, then the stored non-SQL steps in order
MergedShape ==
    /\ Len(Merged) = Len(StoredAnalyses) + Len(StoredNonSql)
    /\ \A i \in 1..Len(StoredAnalyses) : Merged[i] = StoredAnalyses[i]
    /\ \A i \in 1..Len(StoredNonSql) :
          LET out == Merged[Len(StoredAnalyses) + i] IN
          /\ out.function_name = StoredNonSql[i].function_name
          /\ out.result = StoredNonSql[i].result

\* the step of the merged list that comes from the i-th stored non-SQL step
MergedStep(i) == Merged[Len(StoredAnalyses) + i]

IsDict(payload) == payload.type = "dict"

(* C7, as claimed: the merged list is the stored analyses followed by the   *)
(* non-SQL steps in order; each such step carries analysis_id, equal to the *)
(* one of its result when the result is a keyed mapping and to "unknown"    *)
(* when the result is not a keyed mapping.                                  *)
C7_AsClaimed ==
    MdxOk =>
        /\ MergedShape
        /\ \A i \in 1..Len(StoredNonSql) :
              LET step == StoredNonSql[i] IN
              /\ (IsDict(step.result) /\ "analysis_id" \in step.result.keys) =>
                    /\ "analysis_id" \in MergedStep(i).keys
                    /\ MergedStep(i).analysis_id = step.result.analysis_id
              /\ ~IsDict(step.result) =>
                    /\ "analysis_id" \in MergedStep(i).keys
                    /\ MergedStep(i).analysis_id = "unknown"

(* C7, amended: the merged list is the stored analyses followed by the      *)
(* non-SQL steps in order; a step whose result is a keyed mapping carries   *)
(* analysis_id, equal to the mapping's analysis_id, or to "unknown" when    *)
(* the mapping has none; a step whose result is not a keyed mapping is      *)
(* returned as stored, with no analysis_id added.                           *)
C7_Annotation ==
    MdxOk =>
        /\ MergedShape
        /\ \A i \in 1..Len(StoredNonSql) :
              LET step == StoredNonSql[i] IN
              /\ (IsDict(step.result) /\ "analysis_id" \in step.result.keys) =>
                    /\ "analysis_id" \in MergedStep(i).keys
                    /\ MergedStep(i).analysis_id = step.result.analysis_id
              /\ (IsDict(step.result) /\ "analysis_id" \notin step.result.keys) =>
                    /\ "analysis_id" \in MergedStep(i).keys
                    /\ MergedStep(i).analysis_id = "unknown"
              /\ ~IsDict(step.result) => MergedStep(i) = step

\* a report with a stored analysis, a text_to_sql_tool step and a non-SQL step whose
\* result is not a keyed mapping
C7_Witness ==
    /\ MdxOk
    /\ Len(StoredAnalyses) > 0
    /\ \E i \in 1..Len(StoredSteps) : ~NotSqlTagged(StoredSteps[i])
    /\ \E i \in 1..Len(StoredNonSql) : ~IsDict(StoredNonSql[i].result)
    /\ Len(Merged) = Len(StoredAnalyses) + Len(StoredNonSql)

(* C8: update_report_comments with a valid token on an existing row returns *)
(* 200 and stores exactly the provided list as the row's comments; a later  *)
(* get_report_comments of the pair, with no update or delete of the row in  *)
(* between, returns that list.                                              *)
C8_CommentsOverwritten ==
    /\ (Served("update_report_comments") /\ op.valid /\ HadRow) =>
          /\ resp.status_code = 200
          /\ Has(table, op.db_name, op.report_id)
          /\ ~RowOf(table, op.db_name, op.report_id).comments.null
          /\ RowOf(table, op.db_name, op.report_id).comments.items = op.comments
    /\ (Served("get_report_comments") /\ op.valid) =>
          \A w \in written :
              (w.db_name = op.db_name /\ w.report_id = op.report_id) =>
                  /\ resp.status_code = 200
                  /\ ~resp.content.comments.null
                  /\ resp.content.comments.items = w.comments

\* a fetch of comments that an update wrote over a row that had other comments;
\* another row was updated since
C8_Witness ==
    /\ Served("get_report_comments") /\ op.valid /\ resp.status_code = 200
    /\ \E w \in written :
          /\ w.db_name = op.db_name /\ w.report_id = op.report_id
          /\ w.comments = <<"c1">>
    /\ Cardinality(written) > 1

====
